---- MODULE Spec2Model ----
(***************************************************************************)
(* aiogram_forms.base: a form is a class whose fields are asked one at a   *)
(* time.  The class (FormMeta / BaseForm) holds the field tuple, the       *)
(* lazily built StatesGroup, the registration flag and the completion      *)
(* callback; the dispatcher's FSM storage holds, per chat, the current     *)
(* state and the data dict.                                                *)
(*                                                                         *)
(* Python's Optional values are written as sequences of length <= 1:       *)
(* None is <<>> and a value v is <<v>>.                                    *)
(*                                                                         *)
(* A coroutine runs on the event loop in steps.  A coroutine that has been *)
(* called and has not returned is a task; between two steps of a task any  *)
(* step of another task may run.  An awaited call may suspend before it    *)
(* acts or after, so each awaited effect (a read or write of the FSM       *)
(* storage, a validator asked, a message sent, the callback) is a step of  *)
(* its own.  The synchronous code between two awaits, which may raise, is  *)
(* part of the step of the effect it leads to, never of the effect it      *)
(* follows.                                                                *)
(***************************************************************************)
EXTENDS Naturals, Sequences, FiniteSets, Bags, TLC

\* ------------------------------------------------------------------ bounds
MaxFields == 2
MaxValidators == 2

\* ---------------------------------------------------------- Python values
None == <<>>
Some(v) == <<v>>
The(o) == o[1]

\* truthiness of an Optional string (None and "" are falsy) and of an Optional
\* list or tuple (None and the empty one are falsy)
TruthyStr(o) == o # None /\ The(o) # ""
TruthyList(o) == o # None /\ The(o) # <<>>

\* ------------------------------------------------------------ environment
Chats == {"A", "B"}
Values == {"", "abc", "30"}
Validators == {"NonEmpty", "Numeric"}
Callbacks == {"cbA", "cbB"}
CallbackArgs == {None, Some(<<>>), Some(<<[user |-> "x"]>>)}
Middlewares == {<<>>, <<"LoggingMiddleware", "I18nMiddleware">>}

DEFAULT_VALIDATION_ERROR_MESSAGE == "DEFAULT_VALIDATION_ERROR_MESSAGE"
STATES_GROUP_SUFFIX == "StatesGroup"
ReplyKeyboardRemove == "ReplyKeyboardRemove"

\* a concrete validator's predicate over the user's text
BaseValidator_validate(validator, value) ==
    CASE validator = "NonEmpty" -> value # ""
      [] validator = "Numeric" -> value = "30"

\* str(middleware) contains "i18n"
mentions_i18n(middleware) == middleware = "I18nMiddleware"

\* the translator middleware applied to a text
gettext(text) == "tr(" \o text \o ")"

\* ------------------------------------------------------------------ fields
\* BaseField.__init__
BaseField(label, validators, reply_keyboard, validation_error_message) ==
    [ key |-> None,
      form |-> None,
      state |-> None,
      label |-> label,
      validation_error_message |->
          IF TruthyStr(validation_error_message) THEN The(validation_error_message)
          ELSE DEFAULT_VALIDATION_ERROR_MESSAGE,
      validators |-> IF TruthyList(validators) THEN The(validators) ELSE <<>>,
      reply_keyboard |->
          IF reply_keyboard # None THEN The(reply_keyboard) ELSE ReplyKeyboardRemove ]

\* a field class that sets _key itself
preset_key(field, key) == [field EXCEPT !.key = Some(key)]

\* BaseField.__set_name__
set_name(field, owner, attr) ==
    [field EXCEPT !.key = IF field.key = None THEN Some(attr) ELSE field.key,
                  !.form = Some(owner)]

state_label(field) == "waiting_" \o The(field.key)

\* a data key without the form's name
data_key_bare(field) == The(field.key)

data_key(field) == The(field.form) \o ":" \o The(field.key)

\* validation_error that ignores the custom message
validation_error_default(field) == DEFAULT_VALIDATION_ERROR_MESSAGE

validation_error(field) == field.validation_error_message

\* a loop that goes on to the next validator whatever the last one answered
validate_asking_all(validators, asked, accepted) ==
    IF asked < Len(validators) THEN [pc |-> "validate", asked |-> asked + 1]
    ELSE IF accepted THEN [pc |-> "update_data", asked |-> 0]
    ELSE [pc |-> "error", asked |-> 0]

\* the loop of BaseField.validate once validator number `asked` has answered
\* (asked = 0: on entry): it returns False on a refusal, awaits the next
\* validator, or returns True after the last; pc is what _handle_input
\* awaits next
validate(validators, asked, accepted) ==
    IF ~ accepted THEN [pc |-> "error", asked |-> 0]
    ELSE IF asked < Len(validators) THEN [pc |-> "validate", asked |-> asked + 1]
    ELSE [pc |-> "update_data", asked |-> 0]

\* ------------------------------------------------------- class definitions
\* what a class body declares: (attribute name, value) in declaration order
Field(attr, field) == [attr |-> attr, is_field |-> TRUE, prop |-> field]
Attr(attr) == [attr |-> attr, is_field |-> FALSE]

Declarations ==
    << Field("name", BaseField("Name", Some(<<"NonEmpty">>), None, None)),
       Field("age", BaseField("Age", Some(<<"NonEmpty", "Numeric">>),
                              Some("AgeKeyboard"), Some("Age must be a number"))),
       Field("nick", BaseField("Nick", Some(<<"Numeric">>), None, Some(""))) >>

ValidatorLists == UNION {[1..n -> Validators] : n \in 0..MaxValidators}

\* class bodies: a run of up to MaxFields declarations, or one field with any
\* validator list and a key of its own
Namespaces ==
    LET head == <<Attr("__module__"), Attr("__qualname__")>>
        n == Len(Declarations)
    IN  {head}
        \cup {head \o SubSeq(Declarations, w[1], w[2]) :
                 w \in {w \in (1..n) \X (1..n) : w[1] <= w[2] /\ w[2] < w[1] + MaxFields}}
        \cup {head \o <<Field("code", preset_key(BaseField("Code", Some(vs), None,
                                                              Some("Bad code")), "pin"))>> :
                 vs \in ValidatorLists}

\* FormMeta._get_form_fields
RECURSIVE get_form_fields(_, _)
get_form_fields(form_name, namespace) ==
    IF namespace = <<>> THEN <<>>
    ELSE LET item == Head(namespace)
             rest == get_form_fields(form_name, Tail(namespace))
         IN  IF item.is_field
             THEN <<set_name(item.prop, form_name, item.attr)>> \o rest
             ELSE rest

\* ------------------------------------------------------------------- state
VARIABLES
    name,             \* cls.name
    _fields,          \* cls._fields, each field with its key, form and state
    _state,           \* cls._state: None or the generated StatesGroup
    _registered,      \* cls._registered
    _callback,        \* cls._callback
    _callback_args,   \* cls._callback_args
    _i18n,            \* cls._i18n
    middleware,       \* dispatcher.middleware.applications
    handlers,         \* what register_message_handler was called with, in order
    fsm_state,        \* storage: chat -> Optional state name
    fsm_data,         \* storage: chat -> data dict (a function on the stored keys)
    tasks,            \* the coroutines in flight (a bag): where each resumes
    classes_created,  \* how many StatesGroup classes type() has built
    op,               \* the last step: whose it is, which, and what it found
    sent,             \* bot.send_message calls of the last step, in order
    called,           \* callback invocations of the last step, in order
    validator_calls,  \* validators invoked by the last step, in order
    raised,           \* the exception the last step ended its task with, or None
    ret,              \* what the last step returned to the caller, or None
    supplier,         \* the latest start that gave a callback: its chat and pair
    own               \* chat -> the callback argument of the chat's latest start

class_vars == <<name, _fields, _state, _registered, _callback, _callback_args, _i18n>>
dispatcher_vars == <<middleware, handlers>>
storage_vars == <<fsm_state, fsm_data>>
loop_vars == <<tasks>>
observed_vars == <<classes_created, op, sent, called, validator_calls, raised, ret>>
history_vars == <<supplier, own>>
vars == <<class_vars, dispatcher_vars, storage_vars, loop_vars, observed_vars, history_vars>>

FormName == "Signup"

\* FormMeta.__new__ for a class body, before any chat has used the form
Init ==
    /\ \E namespace \in Namespaces : _fields = get_form_fields(FormName, namespace)
    /\ name = FormName
    /\ _state = None
    /\ _registered = FALSE
    /\ _callback = None
    /\ _callback_args = None
    /\ _i18n = None
    /\ middleware \in Middlewares
    /\ handlers = <<>>
    /\ fsm_state = [chat \in Chats |-> None]
    /\ fsm_data = [chat \in Chats |-> <<>>]
    /\ tasks = EmptyBag
    /\ classes_created = 0
    /\ op = [name |-> "__new__", step |-> "call"]
    /\ sent = <<>>
    /\ called = <<>>
    /\ validator_calls = <<>>
    /\ raised = None
    /\ ret = None
    /\ supplier = None
    /\ own = [chat \in Chats |-> None]

\* -------------------------------------------------------------- operations
\* the keys of a dict built from these keys, in insertion order
RECURSIVE dict_keys(_)
dict_keys(keys) ==
    IF keys = <<>> THEN <<>>
    ELSE LET init == dict_keys(SubSeq(keys, 1, Len(keys) - 1))
             last == keys[Len(keys)]
         IN  IF \E i \in 1..Len(init) : init[i] = last THEN init ELSE Append(init, last)

\* type(name + suffix, (StatesGroup,), {state_label: State()}): the group and
\* the full names of its states
StatesGroup(group_name, fields, id) ==
    LET labels == dict_keys([i \in 1..Len(fields) |-> state_label(fields[i])])
    IN  [ name |-> group_name,
          states_names |-> [i \in 1..Len(labels) |-> group_name \o ":" \o labels[i]],
          id |-> id ]

\* zip(cls._fields, cls._state.states_names): field._state = state_name
assign_states(fields, states_names) ==
    [i \in 1..Len(fields) |->
        IF i <= Len(states_names)
        THEN [fields[i] EXCEPT !.state = Some(states_names[i])]
        ELSE fields[i]]

\* a state property that builds the group on every read
FormMeta_state_uncached ==
    LET group == StatesGroup(name \o STATES_GROUP_SUFFIX, _fields, classes_created + 1)
    IN  /\ _state' = Some(group)
        /\ _fields' = assign_states(_fields, group.states_names)
        /\ classes_created' = classes_created + 1

\* FormMeta.state: after the step the group is The(_state')
FormMeta_state ==
    IF _state = None
    THEN LET group == StatesGroup(name \o STATES_GROUP_SUFFIX, _fields, classes_created + 1)
         IN  /\ _state' = Some(group)
             /\ _fields' = assign_states(_fields, group.states_names)
             /\ classes_created' = classes_created + 1
    ELSE UNCHANGED <<_state, _fields, classes_created>>

\* the middleware the loop of _register_handler leaves in cls._i18n
found_i18n(applications, current) ==
    LET hits == {i \in 1..Len(applications) : mentions_i18n(applications[i])}
    IN  IF hits = {} THEN current
        ELSE Some(applications[CHOOSE i \in hits : \A j \in hits : j <= i])

\* a registration that does not look at cls._registered
_register_handler_unguarded ==
    /\ FormMeta_state
    /\ handlers' = Append(handlers, [callback |-> "_handle_input",
                                     state |-> The(_state').states_names])
    /\ _i18n' = found_i18n(middleware, _i18n)
    /\ _registered' = TRUE

\* BaseForm._register_handler
_register_handler ==
    IF ~ _registered
    THEN /\ FormMeta_state
         /\ handlers' = Append(handlers, [callback |-> "_handle_input",
                                          state |-> The(_state').states_names])
         /\ _i18n' = found_i18n(middleware, _i18n)
         /\ _registered' = TRUE
    ELSE UNCHANGED <<_state, _fields, classes_created, handlers, _i18n, _registered>>


\* cls._i18n(text) if cls._i18n else text
translated(text) == IF _i18n # None THEN gettext(text) ELSE text

\* BaseForm.get_current_field: the index of the field found (0: the loop ended
\* and the coroutine returned None), or the error of reading the state of a
\* field that has none yet
RECURSIVE current_field_from(_, _)
current_field_from(i, state) ==
    IF i > Len(_fields) THEN [raised |-> None, field |-> 0]
    ELSE IF _fields[i].state = None THEN [raised |-> Some("AttributeError"), field |-> 0]
    ELSE IF _fields[i].state = state THEN [raised |-> None, field |-> i]
    ELSE current_field_from(i + 1, state)

\* an index that is one too far
index_off_by_one(fields, field) ==
    1 + CHOOSE i \in 1..Len(fields) :
            /\ fields[i] = field
            /\ \A j \in 1..(i - 1) : fields[j] # field

\* an index that names the field before the one found, so that the handler
\* asks for the answered field again
index_of_previous(fields, field) ==
    (CHOOSE i \in 1..Len(fields) :
        /\ fields[i] = field
        /\ \A j \in 1..(i - 1) : fields[j] # field) - 1

\* tuple.index
index(fields, field) == CHOOSE i \in 1..Len(fields) :
    /\ fields[i] = field
    /\ \A j \in 1..(i - 1) : fields[j] # field

\* update_data that loses the write
update_data_lost(data, key, value) == data

\* state.update_data(**{key: value})
update_data(data, key, value) ==
    [k \in DOMAIN data \cup {key} |-> IF k = key THEN value ELSE data[k]]

\* state.reset_state(with_data=...): what it leaves of the chat's data
reset_state_data(data, with_data) == IF with_data THEN <<>> ELSE data

\* ------------------------------------------------------------ the event loop
\* the coroutines the event loop runs at a time, next to one get_data
Coroutines == {"first", "second"}

\* a task: the coroutine, its chat, the step it resumes at, and its locals:
\* the message text, the state get_current_field read, the field it found
\* (0: none), the number of the validator asked (0: none), the field being
\* promoted (0: none) and the data the proxy of get_data loaded
Task(coroutine, chat, pc) ==
    [name |-> coroutine, chat |-> chat, pc |-> pc, text |-> "", state |-> None,
     field |-> 0, asked |-> 0, promoted |-> 0, data |-> <<>>]

InFlight == BagToSet(tasks)
Without(task) == tasks (-) SetToBag({task})
With(others, task) == others (+) SetToBag({task})
Reading == {task \in InFlight : task.name = "get_data"}
CanCall == BagCardinality(tasks) - Cardinality(Reading) < Cardinality(Coroutines)

\* what a step of a task in flight writes down of itself
Step(task) ==
    [name |-> task.name, step |-> task.pc, chat |-> task.chat, text |-> task.text,
     field |-> task.field, asked |-> task.asked, promoted |-> task.promoted,
     before |-> fsm_state[task.chat]]

\* one invocation of the callback by a chat's task: the arguments it is given
\* and the state and data of the chat that it finds
invocation(chat, callback, args) ==
    [callback |-> callback, args |-> args,
     state |-> fsm_state[chat], data |-> fsm_data[chat]]

\* -------------------------------------------------------------- operations
\* BaseForm._start_field_promotion, up to its first await: field.state is
\* read for the call of set_state
_start_field_promotion(others, task, i) ==
    IF _fields'[i].state = None
    THEN /\ raised' = Some("AttributeError")
         /\ tasks' = others
    ELSE /\ raised' = None
         /\ tasks' = With(others, [task EXCEPT !.pc = "set_state", !.promoted = i])

\* a set_state whose write is lost
FSMContext_set_state_lost(chat, state) == UNCHANGED fsm_state

\* a set_state that writes the state of every chat
FSMContext_set_state_in_every_chat(chat, state) ==
    fsm_state' = [c \in Chats |-> state]

\* state.set_state(...) of the chat's FSM context
FSMContext_set_state(chat, state) ==
    fsm_state' = [fsm_state EXCEPT ![chat] = state]

\* BaseForm._start_field_promotion: await state.set_state(field.state)
set_state(task) ==
    /\ task.pc = "set_state"
    /\ op' = Step(task)
    /\ FSMContext_set_state(task.chat, _fields[task.promoted].state)
    /\ tasks' = With(Without(task), [task EXCEPT !.pc = "send_message"])
    /\ sent' = <<>>
    /\ called' = <<>>
    /\ validator_calls' = <<>>
    /\ raised' = None
    /\ ret' = None
    /\ UNCHANGED <<class_vars, dispatcher_vars, fsm_data, classes_created>>

\* BaseForm._start_field_promotion: await dispatcher.bot.send_message(...),
\* after which the coroutine that promoted the field returns
send_message(task) ==
    /\ task.pc = "send_message"
    /\ op' = Step(task)
    /\ sent' = << [ chat_id |-> task.chat,
                    text |-> translated(_fields[task.promoted].label),
                    reply_markup |-> Some(_fields[task.promoted].reply_keyboard) ] >>
    /\ tasks' = Without(task)
    /\ called' = <<>>
    /\ validator_calls' = <<>>
    /\ raised' = None
    /\ ret' = None
    /\ UNCHANGED <<class_vars, dispatcher_vars, storage_vars, classes_created>>

\* a start that keeps the callback of an earlier start
start_keeping_callback(chat, callback, callback_args) ==
    /\ op' = [name |-> "start", step |-> "call", chat |-> chat,
              before |-> fsm_state[chat],
              callback |-> callback, callback_args |-> callback_args]
    /\ IF callback # None /\ _callback = None
       THEN /\ _callback' = callback
            /\ _callback_args' = callback_args
       ELSE UNCHANGED <<_callback, _callback_args>>
    /\ _register_handler
    /\ IF Len(_fields') = 0
       THEN /\ raised' = Some("IndexError")
            /\ UNCHANGED tasks
       ELSE _start_field_promotion(tasks, Task("start", chat, "call"), 1)
    /\ sent' = <<>>
    /\ called' = <<>>
    /\ validator_calls' = <<>>
    /\ ret' = None
    /\ UNCHANGED <<name, middleware, storage_vars>>

\* a start that stores what it is given, callback or not
start_always_storing(chat, callback, callback_args) ==
    /\ op' = [name |-> "start", step |-> "call", chat |-> chat,
              before |-> fsm_state[chat],
              callback |-> callback, callback_args |-> callback_args]
    /\ _callback' = callback
    /\ _callback_args' = callback_args
    /\ _register_handler
    /\ IF Len(_fields') = 0
       THEN /\ raised' = Some("IndexError")
            /\ UNCHANGED tasks
       ELSE _start_field_promotion(tasks, Task("start", chat, "call"), 1)
    /\ sent' = <<>>
    /\ called' = <<>>
    /\ validator_calls' = <<>>
    /\ ret' = None
    /\ UNCHANGED <<name, middleware, storage_vars>>

\* a start that begins with empty data
start_with_fresh_data(chat, callback, callback_args) ==
    /\ op' = [name |-> "start", step |-> "call", chat |-> chat,
              before |-> fsm_state[chat],
              callback |-> callback, callback_args |-> callback_args]
    /\ IF callback # None
       THEN /\ _callback' = callback
            /\ _callback_args' = callback_args
       ELSE UNCHANGED <<_callback, _callback_args>>
    /\ _register_handler
    /\ IF Len(_fields') = 0
       THEN /\ raised' = Some("IndexError")
            /\ UNCHANGED tasks
       ELSE _start_field_promotion(tasks, Task("start", chat, "call"), 1)
    /\ fsm_data' = [fsm_data EXCEPT ![chat] = <<>>]
    /\ sent' = <<>>
    /\ called' = <<>>
    /\ validator_calls' = <<>>
    /\ ret' = None
    /\ UNCHANGED <<name, middleware, fsm_state>>

\* BaseForm.start, up to the first await
start(chat, callback, callback_args) ==
    /\ op' = [name |-> "start", step |-> "call", chat |-> chat,
              before |-> fsm_state[chat],
              callback |-> callback, callback_args |-> callback_args]
    /\ IF callback # None
       THEN /\ _callback' = callback
            /\ _callback_args' = callback_args
       ELSE UNCHANGED <<_callback, _callback_args>>
    /\ _register_handler
    /\ IF Len(_fields') = 0
       THEN /\ raised' = Some("IndexError")
            /\ UNCHANGED tasks
       ELSE _start_field_promotion(tasks, Task("start", chat, "call"), 1)
    /\ sent' = <<>>
    /\ called' = <<>>
    /\ validator_calls' = <<>>
    /\ ret' = None
    /\ UNCHANGED <<name, middleware, storage_vars>>

\* a finish that resets the data with the state
finish_with_data_reset(others, task) ==
    /\ fsm_state' = [fsm_state EXCEPT ![task.chat] = None]
    /\ fsm_data' = [fsm_data EXCEPT
                       ![task.chat] = reset_state_data(fsm_data[task.chat], TRUE)]
    /\ tasks' = With(others, [task EXCEPT !.pc = "callback"])

\* a finish that goes on to the callback without resetting the state
finish_without_reset(others, task) ==
    /\ UNCHANGED <<fsm_state, fsm_data>>
    /\ tasks' = With(others, [task EXCEPT !.pc = "callback"])

\* BaseForm.finish: await state.reset_state(with_data=False)
finish(others, task) ==
    /\ fsm_state' = [fsm_state EXCEPT ![task.chat] = None]
    /\ fsm_data' = [fsm_data EXCEPT
                       ![task.chat] = reset_state_data(fsm_data[task.chat], FALSE)]
    /\ tasks' = With(others, [task EXCEPT !.pc = "callback"])

\* a callback that is always awaited without arguments
finish_callback_without_args(task) ==
    /\ task.pc = "callback"
    /\ op' = Step(task)
    /\ called' =
          IF _callback # None
          THEN <<invocation(task.chat, The(_callback), <<>>)>>
          ELSE <<>>
    /\ tasks' = Without(task)
    /\ sent' = <<>>
    /\ validator_calls' = <<>>
    /\ raised' = None
    /\ ret' = None
    /\ UNCHANGED <<class_vars, dispatcher_vars, storage_vars, classes_created>>

\* BaseForm.finish, after the reset: the callback is read and awaited, and
\* the coroutine that finished the form returns
finish_callback(task) ==
    /\ task.pc = "callback"
    /\ op' = Step(task)
    /\ called' =
          IF _callback # None
          THEN IF TruthyList(_callback_args)
               THEN <<invocation(task.chat, The(_callback), The(_callback_args))>>
               ELSE <<invocation(task.chat, The(_callback), <<>>)>>
          ELSE <<>>
    /\ tasks' = Without(task)
    /\ sent' = <<>>
    /\ validator_calls' = <<>>
    /\ raised' = None
    /\ ret' = None
    /\ UNCHANGED <<class_vars, dispatcher_vars, storage_vars, classes_created>>

\* BaseForm._handle_input, the call: await cls.get_current_field(), as far
\* as its await of the chat's state
_handle_input(chat, text) ==
    /\ op' = [name |-> "_handle_input", step |-> "call", chat |-> chat,
              before |-> fsm_state[chat], text |-> text]
    /\ tasks' = With(tasks, [Task("_handle_input", chat, "get_current_field")
                                EXCEPT !.text = text, !.state = fsm_state[chat]])
    /\ sent' = <<>>
    /\ called' = <<>>
    /\ validator_calls' = <<>>
    /\ raised' = None
    /\ ret' = None
    /\ UNCHANGED <<class_vars, dispatcher_vars, storage_vars, classes_created>>

\* BaseField.validate from validator number `asked` on: await
\* validator.validate(value) of that validator and what the loop does with
\* its answer; without a validator left the loop ends and validate is true
BaseField_validate(others, task, asked) ==
    LET validators == _fields[task.field].validators
    IN  IF asked > Len(validators)
        THEN /\ op' = Step(task) @@ [valid |-> TRUE]
             /\ validator_calls' = <<>>
             /\ tasks' = With(others, [task EXCEPT !.pc = "update_data", !.asked = 0])
        ELSE LET accepted == BaseValidator_validate(validators[asked], task.text)
                 next == validate(validators, asked, accepted)
             IN  /\ op' = [Step(task) EXCEPT !.asked = asked] @@ [valid |-> accepted]
                 /\ validator_calls' = <<validators[asked]>>
                 /\ tasks' = With(others, [task EXCEPT !.pc = next.pc,
                                                       !.asked = next.asked])

\* BaseForm.get_current_field resumed with the state it read: the loop over
\* the fields; then, in _handle_input, await field.validate(message.text) as
\* far as its first validator, which fails when the field is None
get_current_field(task) ==
    LET current == current_field_from(1, task.state)
        others == Without(task)
    IN  /\ task.pc = "get_current_field"
        /\ IF current.raised # None \/ current.field = 0
           THEN \* field.state or None.validate fails
                /\ op' = Step(task)
                /\ raised' = Some("AttributeError")
                /\ validator_calls' = <<>>
                /\ tasks' = others
           ELSE /\ raised' = None
                /\ BaseField_validate(others,
                                      [task EXCEPT !.state = None,
                                                   !.field = current.field], 1)
        /\ sent' = <<>>
        /\ called' = <<>>
        /\ ret' = None
        /\ UNCHANGED <<class_vars, dispatcher_vars, storage_vars, classes_created>>

\* BaseField.validate resumed with the answer of a validator that accepted:
\* the next validator is awaited
_handle_input_validate(task) ==
    /\ task.pc = "validate"
    /\ BaseField_validate(Without(task), task, task.asked)
    /\ sent' = <<>>
    /\ called' = <<>>
    /\ raised' = None
    /\ ret' = None
    /\ UNCHANGED <<class_vars, dispatcher_vars, storage_vars, classes_created>>

\* BaseForm._handle_input, the input refused: await bot.send_message(...) of
\* the validation error, after which the handler returns
_handle_input_error(task) ==
    /\ task.pc = "error"
    /\ op' = Step(task)
    /\ sent' = << [ chat_id |-> task.chat,
                    text |-> translated(validation_error(_fields[task.field])),
                    reply_markup |-> None ] >>
    /\ tasks' = Without(task)
    /\ called' = <<>>
    /\ validator_calls' = <<>>
    /\ raised' = None
    /\ ret' = None
    /\ UNCHANGED <<class_vars, dispatcher_vars, storage_vars, classes_created>>

\* BaseForm._handle_input, the input accepted: await state.update_data(...)
_handle_input_update_data(task) ==
    /\ task.pc = "update_data"
    /\ op' = Step(task)
    /\ fsm_data' = [fsm_data EXCEPT ![task.chat] =
                       update_data(fsm_data[task.chat], data_key(_fields[task.field]),
                                   task.text)]
    /\ tasks' = With(Without(task), [task EXCEPT !.pc = "next_field_index"])
    /\ sent' = <<>>
    /\ called' = <<>>
    /\ validator_calls' = <<>>
    /\ raised' = None
    /\ ret' = None
    /\ UNCHANGED <<class_vars, dispatcher_vars, classes_created, fsm_state>>

\* BaseForm._handle_input resumed after the write: the next field is promoted
\* as far as await state.set_state(field.state), which fails on a field
\* without state; or, after the last field, await cls.finish() as far as the
\* reset
_handle_input_next_field(task) ==
    LET next_field_index == index(_fields, _fields[task.field]) + 1
        others == Without(task)
    IN  /\ task.pc = "next_field_index"
        /\ op' = Step(task)
        /\ IF next_field_index <= Len(_fields)
           THEN IF _fields[next_field_index].state = None
                THEN /\ raised' = Some("AttributeError")
                     /\ tasks' = others
                     /\ UNCHANGED <<fsm_state, fsm_data>>
                ELSE /\ raised' = None
                     /\ FSMContext_set_state(task.chat, _fields[next_field_index].state)
                     /\ tasks' = With(others, [task EXCEPT !.pc = "send_message",
                                                           !.promoted = next_field_index])
                     /\ UNCHANGED fsm_data
           ELSE /\ raised' = None
                /\ finish(others, task)
        /\ sent' = <<>>
        /\ called' = <<>>
        /\ validator_calls' = <<>>
        /\ ret' = None
        /\ UNCHANGED <<class_vars, dispatcher_vars, classes_created>>

\* BaseForm.finish, called by the application: as far as the reset
call_finish(chat) ==
    /\ op' = [name |-> "finish", step |-> "call", chat |-> chat,
              before |-> fsm_state[chat]]
    /\ finish(tasks, Task("finish", chat, "call"))
    /\ sent' = <<>>
    /\ called' = <<>>
    /\ validator_calls' = <<>>
    /\ raised' = None
    /\ ret' = None
    /\ UNCHANGED <<class_vars, dispatcher_vars, classes_created>>

\* the mapping get_data builds of the data its proxy loaded
get_data_mapping(data) ==
    [k \in {data_key(_fields[i]) : i \in 1..Len(_fields)} |->
        IF k \in DOMAIN data THEN Some(data[k]) ELSE None]

\* BaseForm.get_data, the call: async with state.proxy() as data, as far as
\* the load of the chat's data on entry
get_data(chat) ==
    /\ op' = [name |-> "get_data", step |-> "call", chat |-> chat]
    /\ tasks' = With(tasks, [Task("get_data", chat, "return")
                                EXCEPT !.data = fsm_data[chat]])
    /\ sent' = <<>>
    /\ called' = <<>>
    /\ validator_calls' = <<>>
    /\ raised' = None
    /\ ret' = None
    /\ UNCHANGED <<class_vars, dispatcher_vars, storage_vars, classes_created>>

\* BaseForm.get_data resumed: the mapping of the data loaded, returned when
\* the proxy is left (it has nothing to save)
get_data_return(task) ==
    /\ task.pc = "return"
    /\ op' = Step(task) @@ [data |-> task.data]
    /\ ret' = Some(get_data_mapping(task.data))
    /\ tasks' = Without(task)
    /\ sent' = <<>>
    /\ called' = <<>>
    /\ validator_calls' = <<>>
    /\ raised' = None
    /\ UNCHANGED <<class_vars, dispatcher_vars, storage_vars, classes_created>>

\* a read of the class property `state` by the application
get_state ==
    /\ op' = [name |-> "state", step |-> "call", cached |-> _state # None]
    /\ FormMeta_state
    /\ ret' = _state'
    /\ sent' = <<>>
    /\ called' = <<>>
    /\ validator_calls' = <<>>
    /\ raised' = None
    /\ UNCHANGED <<name, _registered, _callback, _callback_args, _i18n,
                   dispatcher_vars, storage_vars, loop_vars>>

\* ------------------------------------------------------------ the event loop
\* Any two coroutines of a chat at a time, and a get_data next to them: a
\* coroutine is called for the chat, or a task in flight takes its next
\* step.  The forms are the empty one and name, age, ... up to MaxFields
\* fields; the dispatcher that carries an i18n middleware runs the shorter
\* ones.
LoopInit ==
    /\ Init
    /\ \E n \in 0..MaxFields :
          _fields = get_form_fields(FormName, SubSeq(Declarations, 1, n))
    /\ middleware # <<>> => Len(_fields) < MaxFields

\* the chat whose coroutines overlap
Overlapping == {"A"}

Next ==
    \/ \E chat \in Overlapping, callback \in {None} \cup {Some(c) : c \in Callbacks},
          callback_args \in CallbackArgs :
            CanCall /\ start(chat, callback, callback_args) /\ UNCHANGED history_vars
    \/ \E chat \in Overlapping, text \in Values :
            CanCall /\ _handle_input(chat, text) /\ UNCHANGED history_vars
    \/ \E chat \in Overlapping : CanCall /\ call_finish(chat) /\ UNCHANGED history_vars
    \/ \E chat \in Overlapping : Reading = {} /\ get_data(chat) /\ UNCHANGED history_vars
    \/ get_state /\ UNCHANGED history_vars
    \/ \E task \in InFlight : set_state(task) /\ UNCHANGED history_vars
    \/ \E task \in InFlight : send_message(task) /\ UNCHANGED history_vars
    \/ \E task \in InFlight : get_current_field(task) /\ UNCHANGED history_vars
    \/ \E task \in InFlight : _handle_input_validate(task) /\ UNCHANGED history_vars
    \/ \E task \in InFlight : _handle_input_error(task) /\ UNCHANGED history_vars
    \/ \E task \in InFlight : _handle_input_update_data(task) /\ UNCHANGED history_vars
    \/ \E task \in InFlight : _handle_input_next_field(task) /\ UNCHANGED history_vars
    \/ \E task \in InFlight : finish_callback(task) /\ UNCHANGED history_vars
    \/ \E task \in InFlight : get_data_return(task) /\ UNCHANGED history_vars

Spec == LoopInit /\ [][Next]_vars

\* ------------------------------------------------- one call per chat at a time
\* The scheduling the form is written for: a call for a chat is handled to
\* completion before the next call for the same chat begins, while the calls
\* of different chats interleave at every await.
Idle(chat) == \A task \in InFlight : task.chat # chat

\* what the starts give where one callback is like another: none or cbA;
\* and where the kind of args does not matter: none or one argument
SerialCallbacks == {None, Some("cbA")}
SerialCallbackArgs == {None, Some(<<[user |-> "x"]>>)}

SerialNext ==
    \/ \E chat \in Chats, callback \in SerialCallbacks, callback_args \in CallbackArgs :
            Idle(chat) /\ start(chat, callback, callback_args) /\ UNCHANGED history_vars
    \/ \E chat \in Chats, text \in Values :
            Idle(chat) /\ _handle_input(chat, text) /\ UNCHANGED history_vars
    \/ \E chat \in Chats : Idle(chat) /\ call_finish(chat) /\ UNCHANGED history_vars
    \/ \E chat \in Chats : Idle(chat) /\ get_data(chat) /\ UNCHANGED history_vars
    \/ get_state /\ UNCHANGED history_vars
    \/ \E task \in InFlight : set_state(task) /\ UNCHANGED history_vars
    \/ \E task \in InFlight : send_message(task) /\ UNCHANGED history_vars
    \/ \E task \in InFlight : get_current_field(task) /\ UNCHANGED history_vars
    \/ \E task \in InFlight : _handle_input_validate(task) /\ UNCHANGED history_vars
    \/ \E task \in InFlight : _handle_input_error(task) /\ UNCHANGED history_vars
    \/ \E task \in InFlight : _handle_input_update_data(task) /\ UNCHANGED history_vars
    \/ \E task \in InFlight : _handle_input_next_field(task) /\ UNCHANGED history_vars
    \/ \E task \in InFlight : finish_callback(task) /\ UNCHANGED history_vars
    \/ \E task \in InFlight : get_data_return(task) /\ UNCHANGED history_vars

\* the forms: the empty one and name, age, ... up to MaxFields fields; the
\* dispatcher that carries an i18n middleware runs the shorter ones
SerialInit ==
    /\ Init
    /\ \E n \in 0..MaxFields :
          _fields = get_form_fields(FormName, SubSeq(Declarations, 1, n))
    /\ middleware # <<>> => Len(_fields) < MaxFields

SerialSpec == SerialInit /\ [][SerialNext]_vars

\* ------------------------------------------------------- one field, validated
\* The same steps on the one-field forms whose field has any list of up to
\* MaxValidators validators, a message of its own and a key of its own.
FieldInit ==
    /\ Init
    /\ \E i \in 1..Len(_fields) : _fields[i].key = Some("pin")

FieldSpec == FieldInit /\ [][SerialNext]_vars

\* ------------------------------------------- the starts behind a completion
\* The same steps, with the starts written down as they store the callback:
\* who last gave a callback, and what each chat gave at its own latest start.
started(chat, callback, callback_args) ==
    /\ own' = [own EXCEPT ![chat] = Some(callback)]
    /\ supplier' =
          IF callback # None
          THEN Some([chat |-> chat, callback |-> The(callback),
                     callback_args |-> callback_args])
          ELSE supplier

\* the forms of the scenario of the specification text: name, then age
SharedInit ==
    /\ Init
    /\ middleware = <<>>
    /\ \E n \in {1, 2} :
          _fields = get_form_fields(FormName, SubSeq(Declarations, 1, n))

\* the answers where one accepted text is like another: a refused one and an
\* accepted one
SharedValues == {"", "30"}

SharedNext ==
    \/ \E chat \in Chats, callback \in {None} \cup {Some(c) : c \in Callbacks},
          callback_args \in SerialCallbackArgs :
            /\ Idle(chat)
            /\ start(chat, callback, callback_args)
            /\ started(chat, callback, callback_args)
    \/ \E chat \in Chats, text \in SharedValues :
            Idle(chat) /\ _handle_input(chat, text) /\ UNCHANGED history_vars
    \/ \E chat \in Chats : Idle(chat) /\ call_finish(chat) /\ UNCHANGED history_vars
    \/ \E task \in InFlight : set_state(task) /\ UNCHANGED history_vars
    \/ \E task \in InFlight : send_message(task) /\ UNCHANGED history_vars
    \/ \E task \in InFlight : get_current_field(task) /\ UNCHANGED history_vars
    \/ \E task \in InFlight : _handle_input_validate(task) /\ UNCHANGED history_vars
    \/ \E task \in InFlight : _handle_input_error(task) /\ UNCHANGED history_vars
    \/ \E task \in InFlight : _handle_input_update_data(task) /\ UNCHANGED history_vars
    \/ \E task \in InFlight : _handle_input_next_field(task) /\ UNCHANGED history_vars
    \/ \E task \in InFlight : finish_callback(task) /\ UNCHANGED history_vars

SharedSpec == SharedInit /\ [][SharedNext]_vars

\* ------------------------------------------------------- a field used twice
\* A field instance keeps the key of the first class body that named it:
\* __set_name__ writes _key only while it is None. Here an instance that a
\* class Profile declared as `name` is declared again, as `contact`, in the
\* form, next to the form's own `name`.
ReusedField ==
    set_name(BaseField("Contact", Some(<<"NonEmpty">>), None, None), "Profile", "name")

ReuseNamespaces ==
    { <<Attr("__module__"), Attr("__qualname__")>> \o SubSeq(Declarations, 1, 2),
      <<Attr("__module__"), Attr("__qualname__"), Declarations[1],
        Field("contact", ReusedField)>> }

ReuseInit ==
    /\ \E namespace \in ReuseNamespaces : _fields = get_form_fields(FormName, namespace)
    /\ name = FormName
    /\ _state = None
    /\ _registered = FALSE
    /\ _callback = None
    /\ _callback_args = None
    /\ _i18n = None
    /\ middleware \in Middlewares
    /\ handlers = <<>>
    /\ fsm_state = [chat \in Chats |-> None]
    /\ fsm_data = [chat \in Chats |-> <<>>]
    /\ tasks = EmptyBag
    /\ classes_created = 0
    /\ op = [name |-> "__new__", step |-> "call"]
    /\ sent = <<>>
    /\ called = <<>>
    /\ validator_calls = <<>>
    /\ raised = None
    /\ ret = None
    /\ supplier = None
    /\ own = [chat \in Chats |-> None]

ReuseSpec == ReuseInit /\ [][SerialNext]_vars

\* ------------------------------------------------------ runs that are answered
\* The steps of a dispatcher whose chats start the form only when they are not
\* in it, whose event loop resumes every coroutine that waits, and whose
\* users do answer: a chat that waits on a field is eventually sent a text
\* that passes the field's validators. The chats' messages, valid or not, are
\* the only other calls; a chat's messages are handled one at a time.
LiveInit ==
    /\ Init
    /\ middleware = <<>>
    /\ \E n \in 1..MaxFields :
          _fields = get_form_fields(FormName, SubSeq(Declarations, 1, n))

\* the handler called for a text that passes the validators of the chat's field
valid_input(chat) ==
    \E text \in Values :
        /\ Idle(chat)
        /\ \E i \in 1..Len(_fields) :
              /\ current_field_from(1, fsm_state[chat]) = [raised |-> None, field |-> i]
              /\ \A j \in 1..Len(_fields[i].validators) :
                    BaseValidator_validate(_fields[i].validators[j], text)
        /\ _handle_input(chat, text)
        /\ UNCHANGED history_vars

\* the event loop resumes a coroutine of the chat
resumed(chat) ==
    \E task \in InFlight :
        /\ task.chat = chat
        /\ \/ set_state(task)
           \/ send_message(task)
           \/ get_current_field(task)
           \/ _handle_input_validate(task)
           \/ _handle_input_error(task)
           \/ _handle_input_update_data(task)
           \/ _handle_input_next_field(task)
           \/ finish_callback(task)
        /\ UNCHANGED history_vars

LiveNext ==
    \/ \E chat \in Chats, callback \in SerialCallbacks, callback_args \in SerialCallbackArgs :
            /\ Idle(chat)
            /\ fsm_state[chat] = None
            /\ start(chat, callback, callback_args)
            /\ UNCHANGED history_vars
    \/ \E chat \in Chats, text \in Values :
            Idle(chat) /\ _handle_input(chat, text) /\ UNCHANGED history_vars
    \/ \E task \in InFlight : set_state(task) /\ UNCHANGED history_vars
    \/ \E task \in InFlight : send_message(task) /\ UNCHANGED history_vars
    \/ \E task \in InFlight : get_current_field(task) /\ UNCHANGED history_vars
    \/ \E task \in InFlight : _handle_input_validate(task) /\ UNCHANGED history_vars
    \/ \E task \in InFlight : _handle_input_error(task) /\ UNCHANGED history_vars
    \/ \E task \in InFlight : _handle_input_update_data(task) /\ UNCHANGED history_vars
    \/ \E task \in InFlight : _handle_input_next_field(task) /\ UNCHANGED history_vars
    \/ \E task \in InFlight : finish_callback(task) /\ UNCHANGED history_vars

LiveSpec ==
    /\ LiveInit
    /\ [][LiveNext]_vars
    /\ \A chat \in Chats : WF_vars(resumed(chat)) /\ SF_vars(valid_input(chat))

\* ------------------------------------------------------------------ claims
\* what the bot shows for a text: the translator's rendering when the
\* dispatcher carries an i18n middleware, the text itself otherwise
Shown(text) == IF _i18n # None THEN gettext(text) ELSE text

\* the prompt of a field: its label and its reply keyboard
Prompt(chat, field) ==
    [chat_id |-> chat, text |-> Shown(field.label),
     reply_markup |-> Some(field.reply_keyboard)]

\* formName + ':' + fieldKey
DataKey(field) == name \o ":" \o The(field.key)

\* the last step was this step of this coroutine
Did(coroutine, step) == op.name = coroutine /\ op.step = step

\* a text passes every validator of a field
Accepted(field, text) ==
    \A j \in 1..Len(field.validators) :
        BaseValidator_validate(field.validators[j], text)

\* the chat has a task in flight that resumes at this step
Resumes(chat, step) == \E task \in InFlight : task.chat = chat /\ task.pc = step

\* C1: in a chat whose calls do not overlap, whatever state the chat was
\* in, start on a form with at least one field writes the state of the first
\* field and then sends exactly one message, the first field's label with
\* its reply keyboard; when start returns the chat is in that state.
C1_StartPromotesFirstField ==
    /\ (Did("start", "call") /\ Len(_fields) >= 1) =>
          /\ raised = None
          /\ sent = <<>>
          /\ _fields[1].state # None
          /\ \E task \in InFlight :
                task = [Task("start", op.chat, "set_state") EXCEPT !.promoted = 1]
    /\ Did("start", "set_state") =>
          /\ fsm_state[op.chat] = _fields[1].state
          /\ sent = <<>>
    /\ Did("start", "send_message") =>
          /\ raised = None
          /\ fsm_state[op.chat] = _fields[1].state
          /\ sent = <<Prompt(op.chat, _fields[1])>>
          /\ Idle(op.chat)

\* C1 witness: a start has moved a chat that was waiting on the second
\* field back to the first
C1_Witness ==
    /\ Did("start", "set_state")
    /\ Len(_fields) >= 2
    /\ op.before = _fields[2].state
    /\ fsm_state[op.chat] = _fields[1].state

\* C2: in a chat whose calls do not overlap, a value that passes the
\* validation of field i, not the last one, is stored under the field's data
\* key, then the chat is moved to the state of field i+1, then exactly one
\* message is sent, the label of field i+1; no error is sent and the
\* callback is not invoked.
C2_ValidInputAdvances ==
    (op.name = "_handle_input" /\ op.step # "call" /\ op.field >= 1
        /\ op.field < Len(_fields) /\ Accepted(_fields[op.field], op.text)) =>
        LET field == _fields[op.field]
            following == _fields[op.field + 1]
            stored == /\ DataKey(field) \in DOMAIN fsm_data[op.chat]
                      /\ fsm_data[op.chat][DataKey(field)] = op.text
        IN  /\ called = <<>>
            /\ raised = None
            /\ op.step \in {"get_current_field", "validate"} =>
                  /\ op.valid
                  /\ fsm_state[op.chat] = field.state
                  /\ sent = <<>>
                  /\ Resumes(op.chat, IF op.asked < Len(field.validators)
                                      THEN "validate" ELSE "update_data")
            /\ op.step = "update_data" =>
                  /\ stored
                  /\ fsm_state[op.chat] = field.state
                  /\ sent = <<>>
                  /\ Resumes(op.chat, "next_field_index")
            /\ op.step = "next_field_index" =>
                  /\ stored
                  /\ fsm_state[op.chat] = following.state
                  /\ sent = <<>>
                  /\ Resumes(op.chat, "send_message")
            /\ op.step = "send_message" =>
                  /\ stored
                  /\ fsm_state[op.chat] = following.state
                  /\ sent = <<Prompt(op.chat, following)>>
                  /\ Idle(op.chat)
            /\ op.step \in {"get_current_field", "validate", "update_data",
                             "next_field_index", "send_message"}

\* C2 witness: the handler that stored a valid answer to the first field of a
\* two-field form has sent the second field's label and returned
C2_Witness ==
    /\ Did("_handle_input", "send_message")
    /\ Len(_fields) = 2
    /\ op.field = 1
    /\ fsm_state[op.chat] = _fields[2].state

\* the data of a chat restricted to the form's keys, as the mapping a
\* completion callback would be handed
CollectedData(chat) ==
    [k \in {DataKey(_fields[i]) : i \in 1..Len(_fields)} \cap DOMAIN fsm_data[chat] |->
        fsm_data[chat][k]]

\* the handler of an answer to the last field has awaited the callback
LastFieldAnswered ==
    /\ Did("_handle_input", "callback")
    /\ op.field = Len(_fields)

\* C3 as claimed: after a valid answer to the last field of a form started
\* with a callback the state is none and the callback was invoked exactly
\* once, with the collected data mapping, which has one entry per field.
C3_CallbackGetsCollectedData ==
    (LastFieldAnswered /\ _callback # None) =>
        /\ fsm_state[op.chat] = None
        /\ Len(called) = 1
        /\ called[1].args = <<CollectedData(op.chat)>>
        /\ Cardinality(DOMAIN CollectedData(op.chat)) = Len(_fields)

\* C3 amended: in a chat whose calls do not overlap, a valid answer to the
\* last field is stored, then the state is reset to none, then a stored
\* callback is invoked exactly once, with the stored callback args (with no
\* arguments when they are None or empty), and without a stored callback
\* nothing is invoked; the chat's data then holds one entry per field.
C3_CompletionInvokesStoredCallback ==
    (op.name = "_handle_input" /\ op.step # "call" /\ op.field >= 1
        /\ op.field = Len(_fields) /\ Accepted(_fields[op.field], op.text)) =>
        LET stored == /\ \A i \in 1..Len(_fields) :
                            DataKey(_fields[i]) \in DOMAIN fsm_data[op.chat]
                      /\ Cardinality(DOMAIN CollectedData(op.chat)) = Len(_fields)
                      /\ fsm_data[op.chat][DataKey(_fields[op.field])] = op.text
        IN  /\ op.step # "callback" => called = <<>>
            /\ raised = None
            /\ sent = <<>>
            /\ op.step \in {"get_current_field", "validate"} =>
                  /\ op.valid
                  /\ fsm_state[op.chat] = _fields[op.field].state
                  /\ Resumes(op.chat, IF op.asked < Len(_fields[op.field].validators)
                                      THEN "validate" ELSE "update_data")
            /\ op.step = "update_data" =>
                  /\ stored
                  /\ fsm_state[op.chat] = _fields[op.field].state
                  /\ Resumes(op.chat, "next_field_index")
            /\ op.step = "next_field_index" =>
                  /\ stored
                  /\ fsm_state[op.chat] = None
                  /\ Resumes(op.chat, "callback")
            /\ op.step = "callback" =>
                  /\ stored
                  /\ fsm_state[op.chat] = None
                  /\ Idle(op.chat)
                  /\ _callback = None => called = <<>>
                  /\ _callback # None =>
                        /\ Len(called) = 1
                        /\ called[1].callback = The(_callback)
                        /\ called[1].args =
                              IF _callback_args = None THEN <<>> ELSE The(_callback_args)
            /\ op.step \in {"get_current_field", "validate", "update_data",
                             "next_field_index", "callback"}

\* C3 witness: a two-field form completed with a stored callback and args
C3_Witness ==
    /\ LastFieldAnswered
    /\ Len(_fields) = 2
    /\ Len(called) = 1
    /\ called[1].args # <<>>
    /\ Cardinality(DOMAIN CollectedData(op.chat)) = 2

\* C4: in a chat whose calls do not overlap, a value that fails the
\* validation of the current field changes neither the chat's state nor any
\* data, and the handler sends exactly one message, the field's validation
\* error (the custom message, or the default constant when none was given),
\* without reply keyboard, and returns; the label is not sent again and the
\* callback is not invoked.
C4_InvalidInputStep ==
    (op'.name = "_handle_input" /\ op'.step \in {"get_current_field", "validate", "error"}
        /\ op'.field >= 1 /\ ~ Accepted(_fields[op'.field], op'.text)) =>
        LET field == _fields[op'.field]
        IN  /\ raised' = None
            /\ fsm_state' = fsm_state
            /\ fsm_state'[op'.chat] = field.state
            /\ fsm_data' = fsm_data
            /\ called' = <<>>
            /\ op'.step \in {"get_current_field", "validate"} =>
                  /\ sent' = <<>>
                  /\ \E task \in BagToSet(tasks') :
                        /\ task.chat = op'.chat
                        /\ task.pc = IF op'.valid THEN "validate" ELSE "error"
            /\ op'.step = "error" =>
                  /\ sent' = << [chat_id |-> op'.chat,
                                 text |-> Shown(field.validation_error_message),
                                 reply_markup |-> None] >>
                  /\ sent' # <<Prompt(op'.chat, field)>>
                  /\ \A task \in BagToSet(tasks') : task.chat # op'.chat

\* C4: every handler of an invalid value only reports the field's
\* validation error: no state change, no data write, no label, no callback.
C4_InvalidInputOnlyReportsError == [][C4_InvalidInputStep]_vars

\* C4 witness: a field with a custom message has refused a value in a chat
\* that holds data, and the handler has sent the message
C4_Witness ==
    /\ Did("_handle_input", "error")
    /\ Len(sent) = 1
    /\ _fields[op.field].validation_error_message = "Age must be a number"
    /\ fsm_data[op.chat] # <<>>

\* the number of the field whose state a chat is in (0: none of them)
Awaiting(fields, state) ==
    IF \E i \in 1..Len(fields) : fields[i].state # None /\ fields[i].state = state
    THEN CHOOSE i \in 1..Len(fields) : fields[i].state = state
    ELSE 0

\* C5: in a chat whose calls do not overlap, between a start and the next
\* start or finish of the chat every step leaves the chat's state where it
\* is, or moves it from field i to field i+1, or from the last field to
\* none, and the handler goes on to either only after a valid answer to
\* that field: no field is skipped or revisited, and none is reached from
\* the last field only.
C5_RunStep ==
    \A chat \in Chats :
        LET i == Awaiting(_fields', fsm_state[chat])
            j == Awaiting(_fields', fsm_state'[chat])
            going_on == /\ op'.name = "_handle_input"
                        /\ op'.chat = chat
                        /\ op'.step = "next_field_index"
                        /\ op'.field = i
                        /\ 1 <= i
                        /\ Accepted(_fields[i], op'.text)
        IN  ~ (op'.name \in {"start", "finish"} /\ op'.chat = chat) =>
                  \/ fsm_state'[chat] = fsm_state[chat]
                  \/ /\ going_on
                     /\ i < Len(_fields)
                     /\ j = i + 1
                  \/ /\ going_on
                     /\ i = Len(_fields)
                     /\ fsm_state'[chat] = None

\* C5: every step within a run keeps a chat's state, moves it to the next
\* field, or moves it from the last field to none.
C5_LinearProgress == [][C5_RunStep]_vars

\* C5 witness: a chat went through both fields of a two-field form and is
\* back to none
C5_Witness ==
    /\ Did("_handle_input", "next_field_index")
    /\ Len(_fields) = 2
    /\ op.field = 2
    /\ op.before = _fields[2].state
    /\ fsm_state[op.chat] = None
    /\ _fields[1].state # _fields[2].state

\* C6: field.validate(x) is false iff some validator of the field refuses
\* x (true for a field without validators); the validators are asked in
\* list order, one per step, and none is asked after the first one that
\* refuses.
C6_ValidateShortCircuits ==
    /\ (op.name = "_handle_input" /\ op.step \in {"get_current_field", "validate"}
            /\ raised = None) =>
          LET validators == _fields[op.field].validators
              k == Len(validators)
          IN  /\ op.step = "get_current_field" => op.asked = (IF k = 0 THEN 0 ELSE 1)
              /\ k = 0 => (op.valid /\ validator_calls = <<>>)
              /\ k >= 1 =>
                    /\ op.asked \in 1..k
                    /\ validator_calls = <<validators[op.asked]>>
                    /\ op.valid = BaseValidator_validate(validators[op.asked], op.text)
                    /\ \A j \in 1..(op.asked - 1) :
                          BaseValidator_validate(validators[j], op.text)
              /\ \E task \in InFlight :
                    /\ task.chat = op.chat
                    /\ IF ~ op.valid THEN task.pc = "error"
                       ELSE IF op.asked < k
                            THEN task.pc = "validate" /\ task.asked = op.asked + 1
                            ELSE task.pc = "update_data"
    /\ \A task \in InFlight :
          /\ task.pc = "error" => ~ Accepted(_fields[task.field], task.text)
          /\ task.pc = "update_data" => Accepted(_fields[task.field], task.text)
          /\ task.pc = "validate" =>
                \A j \in 1..(task.asked - 1) :
                    BaseValidator_validate(_fields[task.field].validators[j], task.text)
    /\ ~ (op.name = "_handle_input" /\ op.step \in {"get_current_field", "validate"}) =>
          validator_calls = <<>>

\* C6 witness: the first validator refused a value the second would accept,
\* and the handler goes on to the error without asking the second
C6_Witness ==
    /\ Did("_handle_input", "get_current_field")
    /\ raised = None
    /\ Len(_fields[op.field].validators) >= 2
    /\ ~ BaseValidator_validate(_fields[op.field].validators[1], op.text)
    /\ BaseValidator_validate(_fields[op.field].validators[2], op.text)
    /\ validator_calls = <<_fields[op.field].validators[1]>>
    /\ Resumes(op.chat, "error")

\* C7: in any state of a chat whose calls do not overlap get_data returns a
\* mapping whose keys are exactly formName + ':' + fieldKey of every field,
\* each with the value stored for the calling chat or None when none is
\* stored; it changes neither the state nor the data of any chat.
C7_GetDataStep ==
    op'.name = "get_data" =>
        LET keys == {DataKey(_fields[i]) : i \in 1..Len(_fields)}
            data == fsm_data[op'.chat]
        IN  /\ raised' = None
            /\ fsm_state' = fsm_state
            /\ fsm_data' = fsm_data
            /\ sent' = <<>>
            /\ called' = <<>>
            /\ op'.step = "call" =>
                  /\ ret' = None
                  /\ \E task \in BagToSet(tasks') :
                        task.chat = op'.chat /\ task.pc = "return"
            /\ op'.step = "return" =>
                  /\ ret' # None
                  /\ DOMAIN The(ret') = keys
                  /\ \A k \in keys :
                        The(ret')[k] = IF k \in DOMAIN data THEN Some(data[k]) ELSE None
                  /\ \A task \in BagToSet(tasks') : task.chat # op'.chat

\* C7: every get_data returns the snapshot over exactly the form's data keys
\* and changes no state and no data.
C7_GetDataSnapshot == [][C7_GetDataStep]_vars

\* C7 witness: get_data in the middle of a two-field form returns the first
\* answer and None for the second field
C7_Witness ==
    /\ Did("get_data", "return")
    /\ Len(_fields) = 2
    /\ fsm_state[op.chat] = _fields[2].state
    /\ ret # None
    /\ The(ret)[DataKey(_fields[1])] = Some("abc")
    /\ The(ret)[DataKey(_fields[2])] = None

\* C8: register_message_handler is called exactly once for the form, by the
\* first start, and never again, whatever starts and inputs follow from
\* whichever chats.
C8_RegistrationStep ==
    /\ Len(handlers') <= 1
    /\ op'.name = "start" => Len(handlers') = 1
    /\ Len(handlers') # Len(handlers) =>
          (op'.name = "start" /\ op'.step = "call" /\ handlers = <<>>)
    /\ handlers # <<>> => handlers' = handlers

\* C8: over every step the handler is registered by the first start and
\* never again.
C8_RegisteredOnce == [][C8_RegistrationStep]_vars

\* C8 witness: a chat starts the form again while the other chat is in the
\* form and an answer has been stored
C8_Witness ==
    /\ Did("start", "call")
    /\ op.before # None
    /\ \A chat \in Chats : fsm_state[chat] # None
    /\ \E chat \in Chats : fsm_data[chat] # <<>>
    /\ Len(handlers) = 1

\* C9: once the states group is built, every read of the form's state
\* returns that same group without building another one, and every field
\* keeps the state it was given.
C9_StateStep ==
    /\ classes_created' <= 1
    /\ op'.name = "state" => (ret' # None /\ ret' = _state')
    /\ _state # None =>
          /\ _state' = _state
          /\ classes_created' = classes_created
          /\ Len(_fields') = Len(_fields)
          /\ \A i \in 1..Len(_fields) : _fields'[i].state = _fields[i].state

\* C9: over every step the built states group is kept and returned as is.
C9_StateMemoized == [][C9_StateStep]_vars

\* C9 witness: the state of a two-field form is read after it was built
C9_Witness ==
    /\ op.name = "state"
    /\ op.cached
    /\ Len(_fields) = 2
    /\ ret = _state
    /\ The(_state).states_names = <<The(_fields[1].state), The(_fields[2].state)>>

\* C10 as claimed: when the registered handler of a form with fields runs
\* for a chat whose state is the state of none of the fields, it ends
\* without raising and without writing data, changing a state, sending a
\* message or invoking the callback.
C10_UnresolvedStep ==
    (/\ op'.name = "_handle_input"
     /\ op'.step = "get_current_field"
     /\ op'.field = 0
     /\ _registered
     /\ Len(_fields) >= 1) =>
        /\ raised' = None
        /\ fsm_state' = fsm_state
        /\ fsm_data' = fsm_data
        /\ sent' = <<>>
        /\ called' = <<>>

\* C10 as claimed: every step of the handler on an unresolved field ends
\* without raising and without effect.
C10_UnresolvedFieldTolerated == [][C10_UnresolvedStep]_vars

\* C11 as claimed: a form without fields does not get past its definition:
\* no start on it registers a handler, changes a chat's state or fails on
\* the empty field tuple.
C11_EmptyFormRejected ==
    Len(_fields) = 0 =>
        /\ handlers = <<>>
        /\ ~ _registered
        /\ raised # Some("IndexError")
        /\ \A chat \in Chats : fsm_state[chat] = None

\* C12 step: the reset of finish, called directly or reached from the last
\* field's valid answer, clears the chat's state and leaves every data dict
\* as it is; so does the await of the callback, which sees that data; and
\* while a chat's finish waits for its callback no step changes the chat's
\* data
C12_FinishStep ==
    /\ \/ op'.name = "finish" /\ op'.step = "call"
       \/ /\ op'.name = "_handle_input"
          /\ op'.step = "next_field_index"
          /\ op'.field = Len(_fields)
       =>
          /\ fsm_state'[op'.chat] = None
          /\ fsm_data' = fsm_data
          /\ called' = <<>>
          /\ \E task \in BagToSet(tasks') : task.chat = op'.chat /\ task.pc = "callback"
    /\ op'.step = "callback" =>
          /\ fsm_state' = fsm_state
          /\ fsm_data' = fsm_data
          /\ \A i \in 1..Len(called') : called'[i].data = fsm_data[op'.chat]
    /\ \A task \in InFlight :
          task.pc = "callback" => fsm_data'[task.chat] = fsm_data[task.chat]

\* C12: finish clears only the state: whether called directly or reached
\* from the last field's valid answer, in a chat whose calls do not overlap
\* every key and value the chat's data held before finish is still there
\* afterwards.
C12_FinishKeepsData == [][C12_FinishStep]_vars

\* C12 witness: a finish called on a chat that holds an answer has awaited
\* its callback
C12_Witness ==
    /\ Did("finish", "callback")
    /\ fsm_state[op.chat] = None
    /\ fsm_data[op.chat] # <<>>
    /\ Len(called) = 1
    /\ called[1].data = fsm_data[op.chat]

\* the last step ended a run of the form: finish, reached from the last
\* field's valid answer or called directly, has awaited the callback
Completed == op.step = "callback"

\* the arguments a stored pair is invoked with
InvokedWith(callback_args) ==
    IF callback_args = None THEN <<>> ELSE The(callback_args)

\* C13: the callback and its args belong to the form, not to the chat: a
\* completion in any chat invokes the pair given by the latest start, in
\* whichever chat, that gave a callback (and nothing when no start gave
\* one); so chat A, started with cbA, completes with cbB and B's args once
\* chat B has started with cbB.
C13_CompletionInvokesLatestCallback ==
    Completed =>
        IF supplier = None THEN called = <<>>
        ELSE /\ Len(called) = 1
             /\ called[1].callback = The(supplier).callback
             /\ called[1].args = InvokedWith(The(supplier).callback_args)

\* C13 witness: chat A, whose own start gave cbA, completes the form after
\* chat B started with cbB and args, and cbB is invoked with B's args
C13_Witness ==
    /\ LastFieldAnswered
    /\ op.chat = "A"
    /\ own["A"] = Some(Some("cbA"))
    /\ supplier # None
    /\ The(supplier).chat = "B"
    /\ The(supplier).callback = "cbB"
    /\ fsm_state["B"] # None
    /\ Len(called) = 1
    /\ called[1].callback = "cbB"
    /\ called[1].args = <<[user |-> "x"]>>

\* C14: finish resets the chat's state to none and only then, iff a callback
\* is stored, invokes it exactly once, with the stored args when they are
\* non-empty and with no arguments otherwise; without a stored callback
\* nothing is invoked. In a chat whose calls do not overlap, whatever is
\* invoked therefore sees the state none and, on completion by the last
\* field's answer, that answer stored.
C14_ResetBeforeCallback ==
    /\ \/ op.name = "finish" /\ op.step = "call"
       \/ /\ op.name = "_handle_input"
          /\ op.step = "next_field_index"
          /\ op.field = Len(_fields)
       =>
          /\ fsm_state[op.chat] = None
          /\ called = <<>>
          /\ Resumes(op.chat, "callback")
    /\ Completed =>
          /\ fsm_state[op.chat] = None
          /\ _callback = None => called = <<>>
          /\ _callback # None =>
                /\ Len(called) = 1
                /\ called[1].callback = The(_callback)
                /\ called[1].args =
                      IF TruthyList(_callback_args)
                      THEN The(_callback_args) ELSE <<>>
    /\ called # <<>> => Completed
    /\ \A i \in 1..Len(called) :
          /\ called[i].state = None
          /\ LastFieldAnswered =>
                LET key == DataKey(_fields[op.field])
                IN  /\ key \in DOMAIN called[i].data
                    /\ called[i].data[key] = op.text

\* C14 witness: the last field's answer completes a form whose stored args
\* are empty: the callback ran once without arguments, seeing the state
\* none and the answer stored
C14_Witness ==
    /\ LastFieldAnswered
    /\ _callback_args = Some(<<>>)
    /\ Len(called) = 1
    /\ called[1].args = <<>>
    /\ called[1].state = None
    /\ called[1].data[DataKey(_fields[op.field])] = op.text

\* C15: once the states of a form with N fields are compiled, the group has
\* exactly N states, different fields hold different states, field i holds
\* the state named after its own key ("waiting_" and the key, in the form's
\* group), and a chat waiting in a field's state resolves to that field and
\* no other.
C15_OneStatePerField ==
    _state # None =>
        LET states_names == The(_state).states_names
            N == Len(_fields)
        IN  /\ Len(states_names) = N
            /\ \A i \in 1..N :
                  _fields[i].state =
                      Some(name \o STATES_GROUP_SUFFIX \o ":" \o "waiting_"
                                \o The(_fields[i].key))
            /\ \A i, j \in 1..N : i # j => _fields[i].state # _fields[j].state
            /\ \A chat \in Chats, i \in 1..N :
                  (fsm_state[chat] # None /\ fsm_state[chat] = _fields[i].state) =>
                      current_field_from(1, fsm_state[chat]) = [raised |-> None, field |-> i]

\* C16: a step taken for one chat leaves every other chat's record alone:
\* every step of start, _handle_input (valid, invalid or failing), finish
\* and get_data run for a chat changes neither the state nor the data of a
\* different chat, however the coroutines of the chats interleave.
C16_OtherChatStep ==
    \A chat \in Chats :
        (op'.name \in {"start", "_handle_input", "finish", "get_data"}
            /\ op'.chat # chat) =>
                /\ fsm_state'[chat] = fsm_state[chat]
                /\ fsm_data'[chat] = fsm_data[chat]

C16_ChatsAreIsolated == [][C16_OtherChatStep]_vars

\* C16 witness: chat A has just completed the two-field form while a
\* handler of chat B, which has an answer of its own stored, is between
\* its set_state and its send_message
C16_Witness ==
    /\ LastFieldAnswered
    /\ op.chat = "A"
    /\ Len(_fields) = 2
    /\ fsm_state["A"] = None
    /\ fsm_state["B"] = _fields[2].state
    /\ \E task \in InFlight : task.chat = "B" /\ task.pc = "send_message"
    /\ DataKey(_fields[1]) \in DOMAIN fsm_data["B"]
    /\ fsm_data["B"][DataKey(_fields[1])] # fsm_data["A"][DataKey(_fields[1])]

\* C17: a chat that is in the form, is not started again while in it, and is
\* sent, for each field it waits on, a text that passes the field's
\* validators, eventually completes: finish runs for it (awaiting the stored
\* callback, if any) and leaves its state none.
C17_AnsweredRunCompletes ==
    \A chat \in Chats :
        (fsm_state[chat] # None) ~>
            (Completed /\ op.chat = chat /\ fsm_state[chat] = None)

\* C17 witness: the second field's answer has completed a two-field form
\* with a stored callback, which was invoked
C17_Witness ==
    /\ LastFieldAnswered
    /\ Len(_fields) >= 2
    /\ op.field = Len(_fields)
    /\ fsm_state[op.chat] = None
    /\ _callback # None
    /\ Len(called) = 1
    /\ called[1].callback = The(_callback)

\* C18: a chat that waits on field i has a value stored under the data key
\* of every field before i; restarts in the middle of the form do not break
\* this, since nothing removes data.
C18_EarlierFieldsStored ==
    \A chat \in Chats, i \in 1..Len(_fields) :
        (fsm_state[chat] # None /\ fsm_state[chat] = _fields[i].state) =>
            \A j \in 1..(i - 1) : DataKey(_fields[j]) \in DOMAIN fsm_data[chat]

\* C18 witness: a chat in a later run of the form (the second field's value
\* of an earlier run is still stored) has just answered the first field and
\* was moved to the second
C18_Witness ==
    /\ Did("_handle_input", "next_field_index")
    /\ op.field = 1
    /\ Len(_fields) = 2
    /\ fsm_state[op.chat] = _fields[2].state
    /\ DataKey(_fields[2]) \in DOMAIN fsm_data[op.chat]
    /\ fsm_data[op.chat][DataKey(_fields[1])] = op.text

\* C19: start writes no data and finish removes none, so the answers of an
\* earlier run stay: no stored key ever disappears, get_data in a chat whose
\* calls do not overlap returns what is stored (old values included) and
\* changes nothing, and a stored value changes only when a handler of the
\* chat stores a valid answer to that value's field, to the new answer.
C19_DataStep ==
    /\ op'.name \in {"start", "finish", "get_data", "state"} => fsm_data' = fsm_data
    /\ fsm_data' # fsm_data => (op'.name = "_handle_input" /\ op'.step = "update_data")
    /\ (op'.name = "get_data" /\ op'.step = "return") =>
          LET data == fsm_data[op'.chat]
          IN  ret' = Some([k \in {DataKey(_fields[i]) : i \in 1..Len(_fields)} |->
                              IF k \in DOMAIN data THEN Some(data[k]) ELSE None])
    /\ \A chat \in Chats : \A k \in DOMAIN fsm_data[chat] :
          /\ k \in DOMAIN fsm_data'[chat]
          /\ fsm_data'[chat][k] # fsm_data[chat][k] =>
                /\ op'.name = "_handle_input"
                /\ op'.step = "update_data"
                /\ op'.chat = chat
                /\ Accepted(_fields[op'.field], op'.text)
                /\ DataKey(_fields[op'.field]) = k
                /\ fsm_data'[chat][k] = op'.text

C19_RestartKeepsAnswers == [][C19_DataStep]_vars

\* C19 witness: get_data in a chat that was started again after completing
\* the two-field form, before any new answer: both old values are returned
C19_Witness ==
    /\ Did("get_data", "return")
    /\ Len(_fields) = 2
    /\ fsm_state[op.chat] = _fields[1].state
    /\ ret # None
    /\ \A i \in 1..2 :
          /\ The(ret)[DataKey(_fields[i])] # None
          /\ The(ret)[DataKey(_fields[i])] = Some(fsm_data[op.chat][DataKey(_fields[i])])

\* C20: start without a callback leaves the stored callback and args as
\* they are; start with a callback replaces both, the args becoming None
\* when none are given; no other step writes them, and a completion invokes
\* the pair stored when it awaits the callback, so after a start without a
\* callback it is still the pair of an earlier start.
C20_CallbackStep ==
    /\ (op'.name = "start" /\ op'.step = "call") =>
          IF op'.callback = None
          THEN /\ _callback' = _callback
               /\ _callback_args' = _callback_args
          ELSE /\ _callback' = op'.callback
               /\ _callback_args' = op'.callback_args
    /\ ~ (op'.name = "start" /\ op'.step = "call") =>
          /\ _callback' = _callback
          /\ _callback_args' = _callback_args
    /\ Completed' =>
          IF _callback = None THEN called' = <<>>
          ELSE /\ Len(called') = 1
               /\ called'[1].callback = The(_callback)
               /\ called'[1].args = InvokedWith(_callback_args)

C20_StartWithoutCallbackKeepsPair == [][C20_CallbackStep]_vars

\* C20 witness: a chat whose own latest start gave no callback completes
\* the form, and the callback and args of another start are invoked
C20_Witness ==
    /\ LastFieldAnswered
    /\ own[op.chat] = Some(None)
    /\ supplier # None
    /\ Len(called) = 1
    /\ called[1].callback = The(supplier).callback
    /\ called[1].args = <<[user |-> "x"]>>

====
